---- MODULE Spec2Model ----
(***************************************************************************)
(* Model of the command pipeline of mythril/interfaces/old_cli.py:         *)
(* parse_args and the functions it drives (validate_args, quick_commands,  *)
(* set_config, leveldb_search, get_code, execute_command) together with    *)
(* exit_with_error.                                                        *)
(*                                                                         *)
(* One behaviour of the model is one invocation of the command line tool.  *)
(* The parsed argument namespace and the runtime environment are chosen in *)
(* Init; every collaborator (MythrilConfig, MythrilLevelDB,                *)
(* MythrilDisassembler, MythrilAnalyzer, the file system) is a black box   *)
(* whose call is recorded in `trace` and which either returns or raises.   *)
(*                                                                         *)
(* Conventions                                                             *)
(*  - Python strings that the code inspects (bytecode, file lines) are     *)
(*    sequences of one-character strings.                                  *)
(*  - A string-valued flag that the code only tests for truthiness and     *)
(*    hands on opaquely (search, hash, graph, storage, statespace_json,    *)
(*    contract_hash_to_address, address, leveldb_dir, rpc) is a BOOLEAN:   *)
(*    TRUE when its value is truthy, FALSE when it is None or "".          *)
(*  - Exceptions are named by their class; "none" is a normal return.      *)
(***************************************************************************)
EXTENDS Integers, Sequences, FiniteSets, TLC

VARIABLES
    args,       \* argparse.Namespace handed to parse_args (never modified)
    decoder,    \* sigs.ethereum_input_decoder is not None
    pc,         \* position of the run inside parse_args
    trace,      \* every call, print and exit of the run, in order
    loglevel,   \* effective level of the "mythril" logger
    contracts,  \* disassembler.contracts
    exitcode    \* process exit status; -1 while the process runs

vars == <<args, decoder, pc, trace, loglevel, contracts, exitcode>>

----------------------------------------------------------------------------
(* Bounds of the model *)

\* number of inputs (command line options, environment) that differ from
\* their default value in one invocation
MaxNonDefault == 3

\* largest number of positional solidity_file paths
MaxSolidityFiles == 2

----------------------------------------------------------------------------
(* Python strings *)

Whitespace == {" ", "\n", "\t"}

RECURSIVE LStrip(_)
LStrip(s) == IF s # <<>> /\ Head(s) \in Whitespace THEN LStrip(Tail(s)) ELSE s

RECURSIVE RStrip(_)
RStrip(s) ==
    IF s # <<>> /\ s[Len(s)] \in Whitespace
    THEN RStrip(SubSeq(s, 1, Len(s) - 1))
    ELSE s

\* str.strip()
Strip(s) == RStrip(LStrip(s))

\* s.startswith("0x")
StartsWith0x(s) == Len(s) >= 2 /\ s[1] = "0" /\ s[2] = "x"

\* s[2:] if s.startswith("0x") else s
Strip0x(s) == IF StartsWith0x(s) THEN SubSeq(s, 3, Len(s)) ELSE s

\* "".join([l.strip() for l in lines if len(l.strip()) > 0])
RECURSIVE JoinStripped(_)
JoinStripped(lines) ==
    IF lines = <<>> THEN <<>>
    ELSE (IF Len(Strip(Head(lines))) > 0 THEN Strip(Head(lines)) ELSE <<>>)
         \o JoinStripped(Tail(lines))

\* truthiness of a str or list
Truthy(s) == s # <<>>

----------------------------------------------------------------------------
(* The argument namespace built by create_parser *)

\* the options of the parser that the pipeline reads, and the environment
OptionNames ==
    { "epic", "version", "fire_lasers", "truffle", "disassemble", "dynld",
      "no_onchain_storage_access", "query_signature", "enable_iprof",
      "graph", "statespace_json", "search", "hash", "storage",
      "contract_hash_to_address", "address", "leveldb_dir", "rpc",
      "v", "outform", "code", "codefile", "solidity_file", "decoder" }

OutputFormats == <<"text", "markdown", "json", "jsonv2">>

\* values of -v other than its default that the code tells apart
VerbosityValues == <<-1, 0, 1, 4, 6>>

CodeValues == << <<"6", "0">>, <<"0", "x", "6", "0">> >>

\* contents of the file given with -f, as the lines iterating over it yields
CodeFiles ==
    << << <<"0", "x", "6", "1", "\n">> >>,
       << <<"\n">>, <<" ", "6", "1", "\n">>, <<"6", "2">> >> >>

SolidityFiles(n) == [i \in 1..n |-> "file.sol"]

\* the number of values other than the default that an option ranges over
Alternatives(name) ==
    CASE name = "v" -> Len(VerbosityValues)
      [] name = "outform" -> Len(OutputFormats) - 1
      [] name = "code" -> Len(CodeValues)
      [] name = "codefile" -> Len(CodeFiles)
      [] name = "solidity_file" -> MaxSolidityFiles
      [] OTHER -> 1

\* the namespace in which the options of `chosen` (option -> index of the
\* value) are given on the command line and every other one has its argparse
\* default (codefile: None, no file object)
ArgsOf(chosen) ==
    LET given(n) == n \in DOMAIN chosen
        flag(n) == given(n)
    IN  [ epic |-> flag("epic"), version |-> flag("version"),
          fire_lasers |-> flag("fire_lasers"), truffle |-> flag("truffle"),
          disassemble |-> flag("disassemble"), dynld |-> flag("dynld"),
          no_onchain_storage_access |-> flag("no_onchain_storage_access"),
          query_signature |-> flag("query_signature"),
          enable_iprof |-> flag("enable_iprof"), graph |-> flag("graph"),
          statespace_json |-> flag("statespace_json"),
          search |-> flag("search"), hash |-> flag("hash"),
          storage |-> flag("storage"),
          contract_hash_to_address |-> flag("contract_hash_to_address"),
          address |-> flag("address"), leveldb_dir |-> flag("leveldb_dir"),
          rpc |-> ~given("rpc"),
          v |-> IF given("v") THEN VerbosityValues[chosen["v"]] ELSE 2,
          outform |-> IF given("outform")
                      THEN OutputFormats[chosen["outform"] + 1]
                      ELSE OutputFormats[1],
          code |-> IF given("code") THEN CodeValues[chosen["code"]] ELSE <<>>,
          codefile |-> given("codefile"),
          codefile_lines |-> IF given("codefile")
                             THEN CodeFiles[chosen["codefile"]]
                             ELSE <<>>,
          solidity_file |-> IF given("solidity_file")
                            THEN SolidityFiles(chosen["solidity_file"])
                            ELSE <<>> ]

\* the sets of at most k options
RECURSIVE OptionSets(_)
OptionSets(k) ==
    IF k = 0 THEN {{}}
    ELSE LET smaller == OptionSets(k - 1)
         IN  smaller \cup {s \cup {n} : s \in smaller, n \in OptionNames}

\* every way of giving at most MaxNonDefault inputs a value other than the
\* default
Choices ==
    LET most == CHOOSE m \in {Alternatives(n) : n \in OptionNames} :
                    \A n \in OptionNames : Alternatives(n) <= m
    IN  UNION { {c \in [s -> 1..most] : \A n \in s : c[n] <= Alternatives(n)}
                : s \in OptionSets(MaxNonDefault) }

----------------------------------------------------------------------------
(* Events, exceptions and the outcome of running a piece of code *)

NoDoc == [kind |-> "none"]

\* one entry of the trace: the operation, its string arguments, and for a
\* print of structured data the value printed
Event(op, arg, doc) == [op |-> op, arg |-> arg, doc |-> doc]

Ev(op, arg) == Event(op, arg, NoDoc)

\* the classes an exception is an instance of (builtins as in Python;
\* CriticalError and AddressNotFoundError are the two classes imported from
\* mythril.exceptions, siblings below Exception)
Bases(e) ==
    CASE e = "SystemExit" -> {"SystemExit", "BaseException"}
      [] e = "CriticalError" -> {"CriticalError", "Exception", "BaseException"}
      [] e = "AddressNotFoundError" ->
            {"AddressNotFoundError", "Exception", "BaseException"}
      [] e = "FileNotFoundError" ->
            {"FileNotFoundError", "OSError", "Exception", "BaseException"}
      [] e = "ModuleNotFoundError" ->
            {"ModuleNotFoundError", "ImportError", "Exception", "BaseException"}
      [] e = "AttributeError" -> {"AttributeError", "Exception", "BaseException"}
      [] e = "IndexError" -> {"IndexError", "Exception", "BaseException"}
      [] OTHER -> {"Exception", "BaseException"}

\* a bare `except:` in place of `except cls:`
CatchesBare(cls, e) == e # "none"

\* does `except cls` catch e
Catches(cls, e) == e # "none" /\ cls \in Bases(e)

\* the outcome of a piece of code: the events it added and the exception it
\* left with ("none": it ran to its end)
Outcome(ev, raised) == [ev |-> ev, raised |-> raised]

\* code that runs to its end after the events ev
Ret(ev) == {Outcome(ev, "none")}

Skip == Ret(<<>>)

\* raise e
Raise(e) == {Outcome(<<Ev("raise", <<e>>)>>, e)}

\* first; second
Then(first, second) ==
    { IF r.raised = "none" THEN Outcome(r.ev \o s.ev, s.raised) ELSE r
      : r \in first, s \in second }

\* try: body / except cls: handler
Try(body, cls, handler) ==
    UNION { IF Catches(cls, r.raised)
            THEN {Outcome(r.ev \o h.ev, h.raised) : h \in handler}
            ELSE {r}
            : r \in body }

\* the failures a collaborator may answer a call with
Raises(op) ==
    CASE op \in {"print", "print_help", "os.system", "coloredlogs.install",
                 "log.error", "stderr", "json.dumps"} -> {}
      [] op \in {"open.write", "json.dump"} -> {"Exception"}
      [] op = "contract_hash_to_address" ->
            {"CriticalError", "Exception", "AddressNotFoundError"}
      [] op = "analyze_truffle_project" ->
            {"CriticalError", "Exception", "FileNotFoundError"}
      [] op = "fire_lasers" ->
            {"CriticalError", "Exception", "ModuleNotFoundError"}
      [] OTHER -> {"CriticalError", "Exception"}

\* a call of a collaborator: it returns, or raises one of its failures
Call(op, arg) ==
    Ret(<<Ev(op, arg)>>)
    \cup {Outcome(<<Ev(op, arg), Ev("raise", <<e>>)>>, e) : e \in Raises(op)}

\* sys.exit()
SysExit == {Outcome(<<Ev("sys.exit", <<>>)>>, "SystemExit")}

----------------------------------------------------------------------------
(* exit_with_error *)

log_levels == <<"NOTSET", "CRITICAL", "ERROR", "WARNING", "INFO", "DEBUG">>

\* logging's numeric value of a level
LevelNo(level) ==
    CASE level = "CRITICAL" -> 50
      [] level = "ERROR" -> 40
      [] level = "WARNING" -> 30
      [] level = "INFO" -> 20
      [] level = "DEBUG" -> 10
      [] OTHER -> 0

\* the level in force when logging was never configured
DefaultLevel == log_levels[4]

\* log.error(message) with the logger at `level`: a record below the
\* logger's level is dropped, any other reaches the stderr handler
LogError(message, level) ==
    Ret(<<Ev("log.error", message)>>
        \o IF LevelNo("ERROR") >= LevelNo(level)
           THEN <<Ev("stderr", message)>>
           ELSE <<>>)

JsonError(message) ==
    [kind |-> "object", success |-> FALSE, error |-> message, issues |-> <<>>]

JsonV2Error(message) ==
    [kind |-> "list",
     items |-> << [issues |-> <<>>, sourceType |-> "", sourceFormat |-> "",
                   sourceList |-> <<>>,
                   meta |-> [logs |-> << [level |-> "error", hidden |-> TRUE,
                                          msg |-> message] >>]] >>]

\* exit_with_error without its final sys.exit()
exit_with_error_returns(format_, message, level) ==
    Then(Ret(<<Ev("exit_with_error", <<format_>> \o message)>>),
         IF format_ = "text" \/ format_ = "markdown"
         THEN LogError(message, level)
         ELSE IF format_ = "json"
         THEN Ret(<<Event("print", <<"json.dumps">>, JsonError(message))>>)
         ELSE Ret(<<Event("print", <<"json.dumps">>, JsonV2Error(message))>>))

\* exit_with_error(format_, message); `level` is the level of the logger at
\* the time of the call
exit_with_error(format_, message, level) ==
    Then(Ret(<<Ev("exit_with_error", <<format_>> \o message)>>),
    Then(IF format_ = "text" \/ format_ = "markdown"
         THEN LogError(message, level)
         ELSE IF format_ = "json"
         THEN Ret(<<Event("print", <<"json.dumps">>, JsonError(message))>>)
         ELSE Ret(<<Event("print", <<"json.dumps">>, JsonV2Error(message))>>),
         SysExit))

----------------------------------------------------------------------------
(* validate_args *)

\* the command test of validate_args taking input flags for commands
CommandGivenOrInput(a) ==
    \/ a.search
    \/ a.hash
    \/ a.disassemble
    \/ a.graph
    \/ a.fire_lasers
    \/ a.storage
    \/ a.truffle
    \/ a.statespace_json
    \/ a.contract_hash_to_address
    \/ a.address
    \/ Truthy(a.code)

\* one of the command flags is given
CommandGiven(a) ==
    \/ a.search
    \/ a.hash
    \/ a.disassemble
    \/ a.graph
    \/ a.fire_lasers
    \/ a.storage
    \/ a.truffle
    \/ a.statespace_json
    \/ a.contract_hash_to_address

\* 0 <= args.v < 6
VerbosityInRange(v) == 0 <= v /\ v < 6

\* the level of the logger once validate_args is past its -v section
LevelAfterInstall(a, level) ==
    IF a.v # 0 /\ VerbosityInRange(a.v) THEN log_levels[a.v + 1] ELSE level

\* if args.v: ...
CheckVerbosity(a, level) ==
    IF a.v # 0
    THEN IF VerbosityInRange(a.v)
         THEN Ret(<<Ev("coloredlogs.install", <<log_levels[a.v + 1]>>),
                    Ev("setLevel", <<log_levels[a.v + 1]>>)>>)
         ELSE exit_with_error(a.outform,
                  <<"Invalid -v value, you can find valid values in usage">>,
                  level)
    ELSE Skip

\* if args.query_signature: ...
CheckQuerySignature(a, dec, level) ==
    IF a.query_signature /\ ~dec
    THEN exit_with_error(a.outform,
             <<"The --query-signature function requires the python package ethereum-input-decoder">>,
             level)
    ELSE Skip

\* the instruction-profiling rules applied only when an analysis is requested
CheckIprofNested(a, level) ==
    IF a.enable_iprof /\ (a.graph \/ a.fire_lasers \/ a.statespace_json)
    THEN IF a.v < 4
         THEN exit_with_error(a.outform,
                  <<"--enable-iprof must be used with -v LOG_LEVEL where LOG_LEVEL >= 4">>,
                  level)
         ELSE Skip
    ELSE Skip

\* if args.enable_iprof: ...
CheckIprof(a, level) ==
    IF a.enable_iprof
    THEN IF a.v < 4
         THEN exit_with_error(a.outform,
                  <<"--enable-iprof must be used with -v LOG_LEVEL where LOG_LEVEL >= 4">>,
                  level)
         ELSE IF ~(a.graph \/ a.fire_lasers \/ a.statespace_json)
         THEN exit_with_error(a.outform,
                  <<"--enable-iprof must be used with one of -g, --graph, -x, --fire-lasers, -j and --statespace-json">>,
                  level)
         ELSE Skip
    ELSE Skip

validate_args(a, dec, level) ==
    Then(IF ~CommandGiven(a)
         THEN Then(Ret(<<Ev("print_help", <<>>)>>), SysExit)
         ELSE Skip,
    Then(CheckVerbosity(a, level),
    Then(CheckQuerySignature(a, dec, LevelAfterInstall(a, level)),
         CheckIprof(a, LevelAfterInstall(a, level)))))

----------------------------------------------------------------------------
(* quick_commands, set_config, leveldb_search *)

quick_commands(a) ==
    IF a.hash
    THEN Then(Call("hash_for_function_signature", <<"args.hash">>),
         Then(Ret(<<Ev("print", <<"hash_for_function_signature">>)>>),
              SysExit))
    ELSE Skip

\* the condition of set_config as if the parser declared a store_true option i
ConfigPathConditionDeclared(a) ==
    IF a.dynld THEN "True"
    ELSE IF a.no_onchain_storage_access THEN "False"
    ELSE IF a.rpc THEN "False"
    ELSE "True"

\* args.dynld or not args.no_onchain_storage_access and not (args.rpc or args.i)
\* evaluated left to right with short-circuiting; the parser declares no
\* option `i`, so reading args.i raises AttributeError
ConfigPathCondition(a) ==
    IF a.dynld THEN "True"
    ELSE IF a.no_onchain_storage_access THEN "False"
    ELSE IF a.rpc THEN "False"
    ELSE "AttributeError"

\* set_config with `if` in place of `elif`
BackendChoiceBoth(a) ==
    (IF a.address THEN <<"rpc">> ELSE <<>>)
    \o (IF a.search \/ a.contract_hash_to_address THEN <<"leveldb">> ELSE <<>>)

\* if args.address: ... elif args.search or args.contract_hash_to_address: ...
\* the backends set_config goes on to establish, in order
BackendChoice(a) ==
    IF a.address THEN <<"rpc">>
    ELSE IF a.search \/ a.contract_hash_to_address THEN <<"leveldb">>
    ELSE <<>>

\* config.set_api_rpc(...) or config.set_api_leveldb(...)
Establish(a, backend) ==
    IF backend = "rpc"
    THEN Call("set_api_rpc", <<"args.rpc", "args.rpctls">>)
    ELSE Call("set_api_leveldb",
              <<IF a.leveldb_dir THEN "args.leveldb_dir"
                                 ELSE "config.leveldb_dir">>)

RECURSIVE EstablishEach(_, _)
EstablishEach(a, backends) ==
    IF backends = <<>> THEN Skip
    ELSE Then(Establish(a, Head(backends)), EstablishEach(a, Tail(backends)))

set_config(a) ==
    Then(Call("MythrilConfig", <<>>),
    Then(CASE ConfigPathCondition(a) = "True" ->
                 Call("set_api_from_config_path", <<>>)
           [] ConfigPathCondition(a) = "False" -> Skip
           [] OTHER -> Raise("AttributeError"),
         EstablishEach(a, BackendChoice(a))))

\* leveldb_search without its `except AddressNotFoundError`
leveldb_search_uncaught(a) ==
    IF a.search \/ a.contract_hash_to_address
    THEN Then(Call("MythrilLevelDB", <<"config.eth_db">>),
         Then(IF a.search
              THEN Call("search_db", <<"args.search">>)
              ELSE Call("contract_hash_to_address",
                        <<"args.contract_hash_to_address">>),
              SysExit))
    ELSE Skip

leveldb_search(a) ==
    IF a.search \/ a.contract_hash_to_address
    THEN Then(Call("MythrilLevelDB", <<"config.eth_db">>),
         Then(IF a.search
              THEN Call("search_db", <<"args.search">>)
              ELSE Try(Call("contract_hash_to_address",
                            <<"args.contract_hash_to_address">>),
                       "AddressNotFoundError",
                       Ret(<<Ev("print", <<"Address not found.">>)>>)),
              SysExit))
    ELSE Skip

\* the truffle branch without its `except FileNotFoundError`
truffle_project_uncaught(a) ==
    Then(Call("MythrilDisassembler", <<>>),
         IF a.truffle
         THEN Then(Call("analyze_truffle_project", <<"args">>), SysExit)
         ELSE Skip)

\* the construction of the disassembler and the truffle branch of parse_args
truffle_project(a) ==
    Then(Call("MythrilDisassembler", <<>>),
         IF a.truffle
         THEN Then(Try(Call("analyze_truffle_project", <<"args">>),
                       "FileNotFoundError",
                       Ret(<<Ev("print", <<"Build directory not found. Make sure that you start the analysis from the project root, and that 'truffle compile' has executed successfully.">>)>>)),
                   SysExit)
         ELSE Skip)

----------------------------------------------------------------------------
(* get_code *)

\* get_code testing codefile before code
InputSourceFileFirst(a) ==
    IF a.codefile THEN "codefile"
    ELSE IF Truthy(a.code) THEN "code"
    ELSE IF a.address THEN "address"
    ELSE IF Truthy(a.solidity_file) THEN "solidity_file"
    ELSE "none"

\* the if/elif chain of get_code: the source the input is taken from
InputSource(a) ==
    IF Truthy(a.code) THEN "code"
    ELSE IF a.codefile THEN "codefile"
    ELSE IF a.address THEN "address"
    ELSE IF Truthy(a.solidity_file) THEN "solidity_file"
    ELSE "none"

\* the multiple-files test off by one
MultipleGraphInputsOffByOne(a) == a.graph /\ Len(a.solidity_file) > 2

\* args.graph and len(args.solidity_file) > 1
MultipleGraphInputs(a) == a.graph /\ Len(a.solidity_file) > 1

get_code(a, level) ==
    CASE InputSource(a) = "code" ->
             Call("load_from_bytecode", Strip0x(a.code))
      [] InputSource(a) = "codefile" ->
             Call("load_from_bytecode", Strip0x(JoinStripped(a.codefile_lines)))
      [] InputSource(a) = "address" ->
             Call("load_from_address", <<"args.address">>)
      [] InputSource(a) = "solidity_file" ->
             Then(IF MultipleGraphInputs(a)
                  THEN exit_with_error(a.outform,
                           <<"Cannot generate call graphs from multiple input files. Please do it one at a time.">>,
                           level)
                  ELSE Skip,
                  Call("load_from_solidity", a.solidity_file))
      [] OTHER ->
             exit_with_error(a.outform,
                 <<"No input bytecode. Please provide EVM code via -c BYTECODE, -a ADDRESS, or -i SOLIDITY_FILES">>,
                 level)

\* what a load_from_* call may leave in disassembler.contracts: no contract,
\* or one contract with or without runtime code and creation code
LoadedContracts ==
    {<<>>} \cup {<<[code |-> c, creation_code |-> cc]>> : c, cc \in BOOLEAN}

----------------------------------------------------------------------------
(* execute_command *)

\* execute_command without its statespace_json branch
CommandBranchNoStatespace(a) ==
    IF a.storage THEN "storage"
    ELSE IF a.disassemble THEN "disassemble"
    ELSE IF a.graph \/ a.fire_lasers
    THEN (IF a.graph THEN "graph" ELSE "fire_lasers")
    ELSE "help"

\* execute_command testing graph and fire_lasers before disassemble
CommandBranchGraphFirst(a) ==
    IF a.storage THEN "storage"
    ELSE IF a.graph \/ a.fire_lasers
    THEN (IF a.graph THEN "graph" ELSE "fire_lasers")
    ELSE IF a.disassemble THEN "disassemble"
    ELSE IF a.statespace_json THEN "statespace_json"
    ELSE "help"

\* the branch of execute_command that runs
CommandBranch(a) ==
    IF a.storage THEN "storage"
    ELSE IF a.disassemble THEN "disassemble"
    ELSE IF a.graph \/ a.fire_lasers
    THEN (IF a.graph THEN "graph" ELSE "fire_lasers")
    ELSE IF a.statespace_json THEN "statespace_json"
    ELSE "help"

\* contracts[0] of a possibly empty list, then `body`
FirstContract(cs, body) == IF cs = <<>> THEN Raise("IndexError") ELSE body

NoContracts(a, cs, level) ==
    IF cs = <<>>
    THEN exit_with_error(a.outform,
             <<"input files do not contain any valid contracts">>, level)
    ELSE Skip

\* the storage branch without its address test
storage_command_unchecked(a, level) ==
    Then(Call("get_state_variable_from_storage", <<"address", "args.storage">>),
         Ret(<<Ev("print", <<"storage">>)>>))

storage_command(a, level) ==
    Then(IF ~a.address
         THEN exit_with_error(a.outform,
                  <<"To read storage, provide the address of a deployed contract with the -a option.">>,
                  level)
         ELSE Skip,
    Then(Call("get_state_variable_from_storage", <<"address", "args.storage">>),
         Ret(<<Ev("print", <<"storage">>)>>)))

disassemble_command(cs) ==
    Then(FirstContract(cs,
             IF cs[1].code
             THEN Then(Call("get_easm", <<>>),
                       Ret(<<Ev("print", <<"Runtime Disassembly: \n", "get_easm()">>)>>))
             ELSE Skip),
         FirstContract(cs,
             IF cs[1].creation_code
             THEN Then(Call("get_creation_easm", <<>>),
                       Ret(<<Ev("print", <<"Disassembly: \n", "get_creation_easm()">>)>>))
             ELSE Skip))

graph_command(a, cs, level) ==
    Then(NoContracts(a, cs, level),
    Then(FirstContract(cs, Call("graph_html", <<>>)),
         Try(Call("open.write", <<"args.graph">>),
             "Exception",
             exit_with_error(a.outform, <<"Error saving graph: ", "str(e)">>,
                             level))))

\* the analysis with `except Exception` in place of `except ModuleNotFoundError`
fire_lasers_command_catch_all(a, cs, level) ==
    Then(NoContracts(a, cs, level),
         Try(Then(Call("fire_lasers", <<"args.modules", "args.transaction_count">>),
             Then(Call("report.as_json", <<>>),
             Then(Call("report.as_swc_standard_format", <<>>),
             Then(Call("report.as_text", <<>>),
             Then(Call("report.as_markdown", <<>>),
                  Ret(<<Ev("print", <<"outputs", a.outform>>)>>)))))),
             "Exception",
             exit_with_error(a.outform,
                 <<"Error loading analyis modules: ", "format(e)">>, level)))

fire_lasers_command(a, cs, level) ==
    Then(NoContracts(a, cs, level),
         Try(Then(Call("fire_lasers", <<"args.modules", "args.transaction_count">>),
             Then(Call("report.as_json", <<>>),
             Then(Call("report.as_swc_standard_format", <<>>),
             Then(Call("report.as_text", <<>>),
             Then(Call("report.as_markdown", <<>>),
                  Ret(<<Ev("print", <<"outputs", a.outform>>)>>)))))),
             "ModuleNotFoundError",
             exit_with_error(a.outform,
                 <<"Error loading analyis modules: ", "format(e)">>, level)))

statespace_command(a, cs, level) ==
    Then(NoContracts(a, cs, level),
    Then(FirstContract(cs, Call("dump_statespace", <<>>)),
         Try(Call("json.dump", <<"args.statespace_json">>),
             "Exception",
             exit_with_error(a.outform, <<"Error saving json: ", "str(e)">>,
                             level))))

execute_command(a, cs, level) ==
    IF CommandBranch(a) = "storage"
    THEN storage_command(a, level)
    ELSE Then(Call("MythrilAnalyzer", <<>>),
              CASE CommandBranch(a) = "disassemble" -> disassemble_command(cs)
                [] CommandBranch(a) = "graph" -> graph_command(a, cs, level)
                [] CommandBranch(a) = "fire_lasers" ->
                       fire_lasers_command(a, cs, level)
                [] CommandBranch(a) = "statespace_json" ->
                       statespace_command(a, cs, level)
                [] OTHER -> Ret(<<Ev("print_help", <<>>)>>))

----------------------------------------------------------------------------
(* parse_args *)

\* the try of parse_args without its `except Exception` clause
GuardedCriticalOnly(body, a, level) ==
    UNION { IF Catches("CriticalError", r.raised)
            THEN {Outcome(r.ev \o h.ev, h.raised)
                  : h \in exit_with_error(a.outform, <<"str(ce)">>, level)}
            ELSE {r}
            : r \in body }

\* the try of parse_args around `body`:
\*   except CriticalError as ce: exit_with_error(args.outform, str(ce))
\*   except Exception: exit_with_error(args.outform, traceback.format_exc())
Guarded(body, a, level) ==
    UNION { IF Catches("CriticalError", r.raised)
            THEN {Outcome(r.ev \o h.ev, h.raised)
                  : h \in exit_with_error(a.outform, <<"str(ce)">>, level)}
            ELSE IF Catches("Exception", r.raised)
            THEN {Outcome(r.ev \o h.ev, h.raised)
                  : h \in exit_with_error(a.outform,
                                          <<"traceback.format_exc()">>, level)}
            ELSE {r}
            : r \in body }

\* the process after a piece of parse_args ended as r: it goes on at `next`, or
\* the exception leaves parse_args and main and ends the process (SystemExit
\* from sys.exit() with status 0, any other with status 1)
Continue(r, next) ==
    /\ trace' = trace \o r.ev
    /\ pc' = IF r.raised = "none" THEN next ELSE "exited"
    /\ exitcode' = IF r.raised = "none"
                   THEN (IF next = "exited" THEN 0 ELSE exitcode)
                   ELSE IF r.raised = "SystemExit" THEN 0 ELSE 1

Init ==
    /\ \E chosen \in Choices :
          /\ args = ArgsOf(chosen)
          /\ decoder = ("decoder" \notin DOMAIN chosen)
    /\ pc = "parse_args"
    /\ trace = <<>>
    /\ loglevel = DefaultLevel
    /\ contracts = <<>>
    /\ exitcode = -1

\* if args.epic: ...
Epic ==
    /\ pc = "parse_args"
    /\ args.epic
    /\ \E r \in Then(Ret(<<Ev("os.system", <<"sys.argv", "epic.py">>)>>), SysExit) :
          Continue(r, "version")
    /\ UNCHANGED <<args, decoder, loglevel, contracts>>

\* if args.version: ...
Version ==
    /\ pc = "parse_args"
    /\ ~args.epic
    /\ args.version
    /\ \E r \in Then(Ret(<<Ev("print", <<"version", args.outform>>)>>), SysExit) :
          Continue(r, "validate_args")
    /\ UNCHANGED <<args, decoder, loglevel, contracts>>

ValidateArgs ==
    /\ pc = "parse_args"
    /\ ~args.epic
    /\ ~args.version
    /\ \E r \in validate_args(args, decoder, loglevel) :
          Continue(r, "quick_commands")
    /\ loglevel' = IF CommandGiven(args)
                   THEN LevelAfterInstall(args, loglevel)
                   ELSE loglevel
    /\ UNCHANGED <<args, decoder, contracts>>

QuickCommands ==
    /\ pc = "quick_commands"
    /\ \E r \in Guarded(quick_commands(args), args, loglevel) :
          Continue(r, "set_config")
    /\ UNCHANGED <<args, decoder, loglevel, contracts>>

SetConfig ==
    /\ pc = "set_config"
    /\ \E r \in Guarded(set_config(args), args, loglevel) :
          Continue(r, "leveldb_search")
    /\ UNCHANGED <<args, decoder, loglevel, contracts>>

LeveldbSearch ==
    /\ pc = "leveldb_search"
    /\ \E r \in Guarded(leveldb_search(args), args, loglevel) :
          Continue(r, "truffle")
    /\ UNCHANGED <<args, decoder, loglevel, contracts>>

TruffleProject ==
    /\ pc = "truffle"
    /\ \E r \in Guarded(truffle_project(args), args, loglevel) :
          Continue(r, "get_code")
    /\ UNCHANGED <<args, decoder, loglevel, contracts>>

GetCode ==
    /\ pc = "get_code"
    /\ \E r \in Guarded(get_code(args, loglevel), args, loglevel) :
          /\ Continue(r, "execute_command")
          /\ IF r.raised = "none"
             THEN contracts' \in LoadedContracts
             ELSE contracts' = contracts
    /\ UNCHANGED <<args, decoder, loglevel>>

ExecuteCommand ==
    /\ pc = "execute_command"
    /\ \E r \in Guarded(execute_command(args, contracts, loglevel), args, loglevel) :
          Continue(r, "exited")
    /\ UNCHANGED <<args, decoder, loglevel, contracts>>

Next ==
    \/ Epic
    \/ Version
    \/ ValidateArgs
    \/ QuickCommands
    \/ SetConfig
    \/ LeveldbSearch
    \/ TruffleProject
    \/ GetCode
    \/ ExecuteCommand

Spec == Init /\ [][Next]_vars

----------------------------------------------------------------------------
(* Vocabulary of the properties *)

\* the positions of the trace at which `op` happens
At(op) == {i \in DOMAIN trace : trace[i].op = op}

Called(op) == At(op) # {}

\* the trace holds an exit_with_error whose message begins with `text`
FailedWith(text) ==
    \E i \in At("exit_with_error") : trace[i].arg[2] = text

BackendOps == {"set_api_from_config_path", "set_api_rpc", "set_api_leveldb"}

LoadOps == {"load_from_bytecode", "load_from_address", "load_from_solidity"}

\* what exit_with_error itself does after it was entered
IsErrorEmission(e) ==
    \/ e.op \in {"log.error", "stderr", "sys.exit"}
    \/ e.op = "print" /\ e.doc.kind # "none"

\* none of the nine command flags is set
NoModeFlag ==
    /\ ~args.search
    /\ ~args.hash
    /\ ~args.disassemble
    /\ ~args.graph
    /\ ~args.fire_lasers
    /\ ~args.storage
    /\ ~args.truffle
    /\ ~args.statespace_json
    /\ ~args.contract_hash_to_address

\* the arguments break one of the validation rules
ValidationFails ==
    \/ NoModeFlag
    \/ args.v # 0 /\ (args.v < 0 \/ args.v > 5)
    \/ args.query_signature /\ ~decoder
    \/ args.enable_iprof /\ args.v < 4
    \/ args.enable_iprof
       /\ ~(args.graph \/ args.fire_lasers \/ args.statespace_json)

\* the modes whose flag is set
ModesRequested ==
    {m \in {"Version", "EpicEscape", "HashLookup", "DatabaseSearch",
            "AddressLookup", "TruffleProject", "StorageRead", "Disassemble",
            "GraphExport", "Analyze", "StatespaceExport"} :
        CASE m = "Version" -> args.version
          [] m = "EpicEscape" -> args.epic
          [] m = "HashLookup" -> args.hash
          [] m = "DatabaseSearch" -> args.search
          [] m = "AddressLookup" -> args.contract_hash_to_address
          [] m = "TruffleProject" -> args.truffle
          [] m = "StorageRead" -> args.storage
          [] m = "Disassemble" -> args.disassemble
          [] m = "GraphExport" -> args.graph
          [] m = "Analyze" -> args.fire_lasers
          [] OTHER -> args.statespace_json}

\* the place of a mode in the precedence; Version and EpicEscape share the
\* first place
ModeRank(m) ==
    CASE m \in {"Version", "EpicEscape"} -> 1
      [] m = "HashLookup" -> 2
      [] m = "DatabaseSearch" -> 3
      [] m = "AddressLookup" -> 4
      [] m = "TruffleProject" -> 5
      [] m = "StorageRead" -> 6
      [] m = "Disassemble" -> 7
      [] m = "GraphExport" -> 8
      [] m = "Analyze" -> 9
      [] OTHER -> 10

\* the mode an event of the trace is the operation of, "" for any other event
ModeOfEvent(e) ==
    CASE e.op = "os.system" -> "EpicEscape"
      [] e.op = "print" /\ e.arg # <<>> /\ e.arg[1] = "version" -> "Version"
      [] e.op = "hash_for_function_signature" -> "HashLookup"
      [] e.op = "search_db" -> "DatabaseSearch"
      [] e.op = "contract_hash_to_address" -> "AddressLookup"
      [] e.op = "analyze_truffle_project" -> "TruffleProject"
      [] e.op = "get_state_variable_from_storage" -> "StorageRead"
      [] e.op \in {"get_easm", "get_creation_easm"} -> "Disassemble"
      [] e.op = "graph_html" -> "GraphExport"
      [] e.op = "fire_lasers" -> "Analyze"
      [] e.op = "dump_statespace" -> "StatespaceExport"
      [] OTHER -> ""

ModesExecuted == {ModeOfEvent(trace[i]) : i \in DOMAIN trace} \ {""}

----------------------------------------------------------------------------
(* Properties *)

\* C1: exit_with_error is entered at most once in a run, and once it was
\* entered the process has terminated with nothing after it in the trace but
\* the error's own emission and the exit: no collaborator call, no print of a
\* result, no second exit_with_error.
C1_ExitWithErrorIsFinal ==
    /\ Cardinality(At("exit_with_error")) <= 1
    /\ \A i \in At("exit_with_error") :
          /\ pc = "exited"
          /\ trace[Len(trace)].op = "sys.exit"
          /\ \A j \in (i + 1)..Len(trace) : IsErrorEmission(trace[j])

\* C1 witness: get_code called exit_with_error inside the try of parse_args
\* and the run ended there.
C1_Witness ==
    /\ pc = "exited"
    /\ Called("MythrilDisassembler")
    /\ \E i \in At("exit_with_error") : trace[i].arg[2] =
          "No input bytecode. Please provide EVM code via -c BYTECODE, -a ADDRESS, or -i SOLIDITY_FILES"

\* C2: backend and input resolution happen only after validate_args has
\* returned, and never for arguments that break a validation rule.
C2_ValidationBeforeResolution ==
    \A i \in DOMAIN trace :
        trace[i].op \in BackendOps \cup LoadOps =>
            /\ pc # "parse_args"
            /\ ~ValidationFails

\* C2 witness: a run with the address flag set (which set_config would open
\* an RPC connection for) ended on an instruction-profiling rule.
C2_Witness ==
    /\ pc = "exited"
    /\ args.address
    /\ args.enable_iprof
    /\ args.disassemble
    /\ ValidationFails
    /\ Called("exit_with_error")

\* C3: every mode operation that a run executes belongs to the mode of the
\* earliest flag set in the precedence Version/EpicEscape, HashLookup,
\* DatabaseSearch, AddressLookup, TruffleProject, StorageRead, Disassemble,
\* GraphExport, Analyze, StatespaceExport, and a run executes the operations
\* of at most one mode.
C3_ModePrecedence ==
    /\ Cardinality(ModesExecuted) <= 1
    /\ \A m \in ModesExecuted :
          /\ m \in ModesRequested
          /\ \A other \in ModesRequested : ModeRank(m) <= ModeRank(other)

\* C3 witness: with the flags of Disassemble and GraphExport both set, the
\* disassembly has run.
C3_Witness ==
    /\ args.disassemble
    /\ args.graph
    /\ Called("get_easm")

\* C4: get_code calls at most one loader, the one of the first source present
\* in the order code, codefile, address, solidity files; when it returns with
\* code set, load_from_bytecode was called exactly once, with the literal code
\* less its 0x prefix, whatever codefile holds.
C4_InputPrecedence ==
    LET loads == {i \in DOMAIN trace : trace[i].op \in LoadOps}
    IN  /\ Cardinality(loads) <= 1
        /\ pc = "execute_command" => Cardinality(loads) = 1
        /\ \A i \in loads :
              IF args.code # <<>>
              THEN /\ trace[i].op = "load_from_bytecode"
                   /\ \/ /\ trace[i].arg = args.code
                         /\ ~(Len(args.code) >= 2 /\ args.code[1] = "0"
                              /\ args.code[2] = "x")
                      \/ <<"0", "x">> \o trace[i].arg = args.code
              ELSE IF args.codefile
              THEN trace[i].op = "load_from_bytecode"
              ELSE IF args.address
              THEN trace[i].op = "load_from_address"
              ELSE /\ trace[i].op = "load_from_solidity"
                   /\ args.solidity_file # <<>>

\* C4 witness: get_code returned for arguments with a 0x-prefixed code and a
\* codefile.
C4_Witness ==
    /\ pc = "execute_command"
    /\ args.code = <<"0", "x", "6", "0">>
    /\ args.codefile
    /\ \E i \in At("load_from_bytecode") : trace[i].arg = <<"6", "0">>

\* C5: a run calls at most one of set_api_rpc and set_api_leveldb, and calls
\* it at most once.
C5_OneBackend ==
    Cardinality(At("set_api_rpc") \cup At("set_api_leveldb")) <= 1

\* C5 witness: set_config has run for arguments that ask for both backends
\* (address and search).
C5_Witness ==
    /\ args.address
    /\ args.search
    /\ Called("set_api_rpc")

\* the mode of the earliest flag set in the precedence, Help when none is set
ResolvedMode ==
    IF ModesRequested = {} THEN "Help"
    ELSE CHOOSE m \in ModesRequested :
             \A other \in ModesRequested : ModeRank(m) <= ModeRank(other)

\* C6: the backend follows from the resolved mode alone; in particular, once
\* set_config has returned in a run whose mode is DatabaseSearch or
\* AddressLookup, the database connection was established and the RPC
\* connection was not, whatever other flags are set.
C6_BackendDrivenByMode ==
    pc = "leveldb_search"
    /\ ResolvedMode \in {"DatabaseSearch", "AddressLookup"}
    => Called("set_api_leveldb") /\ ~Called("set_api_rpc")

\* C7: set_api_rpc and set_api_from_config_path are called only when address
\* is set, or dynld is set and no_onchain_storage_access is not.
C7_RpcOnlyWhenNeeded ==
    \A i \in DOMAIN trace :
        trace[i].op \in {"set_api_rpc", "set_api_from_config_path"} =>
            \/ args.address
            \/ args.dynld /\ ~args.no_onchain_storage_access

\* C8 as claimed: a run without any mode flag prints usage and exits, without
\* exit_with_error and without backend or input resolution.
C8_NoModeFlagPrintsUsage ==
    NoModeFlag =>
        /\ ~Called("exit_with_error")
        /\ \A i \in DOMAIN trace : trace[i].op \notin BackendOps \cup LoadOps
        /\ pc = "exited" => Called("print_help")

\* C8: a run without any mode flag never calls exit_with_error nor any backend
\* or input resolution and ends within the first step of parse_args; when
\* neither epic nor version is set it ends by printing usage and exiting.
C8_NoModeFlagUsageUnlessQuickExit ==
    NoModeFlag =>
        /\ ~Called("exit_with_error")
        /\ \A i \in DOMAIN trace : trace[i].op \notin BackendOps \cup LoadOps
        /\ pc \in {"parse_args", "exited"}
        /\ pc = "exited" /\ ~args.epic /\ ~args.version =>
              /\ trace = <<Ev("print_help", <<>>), Ev("sys.exit", <<>>)>>
              /\ exitcode = 0

\* C8 witness: a run with an input flag but no mode flag has printed usage
\* and exited.
C8_Witness ==
    /\ NoModeFlag
    /\ args.address
    /\ pc = "exited"
    /\ Called("print_help")

\* the run failed on one of the two instruction-profiling rules
FailedOnIprof ==
    \/ FailedWith("--enable-iprof must be used with -v LOG_LEVEL where LOG_LEVEL >= 4")
    \/ FailedWith("--enable-iprof must be used with one of -g, --graph, -x, --fire-lasers, -j and --statespace-json")

\* enable_iprof with verbosity 2 and no graph, fire_lasers or statespace_json
IprofMisused ==
    /\ args.enable_iprof
    /\ args.v = 2
    /\ ~(args.graph \/ args.fire_lasers \/ args.statespace_json)

\* C9 as claimed: every run with enable_iprof, verbosity 2 and none of graph,
\* fire_lasers, statespace_json ends through exit_with_error with an
\* instruction-profiling error, whatever the other flags.
C9_IprofAlwaysFails ==
    IprofMisused /\ pc = "exited" => FailedOnIprof

\* C9: a run with enable_iprof, verbosity 2 and none of graph, fire_lasers,
\* statespace_json, in which some mode flag is set, neither epic nor version
\* is set and query_signature is not set without its capability, ends in
\* validate_args through exit_with_error with an instruction-profiling error.
C9_IprofFailsOnceChecked ==
    /\ IprofMisused
    /\ ~NoModeFlag
    /\ ~args.epic
    /\ ~args.version
    /\ ~(args.query_signature /\ ~decoder)
    => /\ pc \in {"parse_args", "exited"}
       /\ pc = "exited" => FailedOnIprof /\ Cardinality(At("exit_with_error")) = 1

\* C9 witness: such a run, with the hash mode and a non-default output
\* format, has ended on the instruction-profiling error.
C9_Witness ==
    /\ IprofMisused
    /\ args.hash
    /\ args.outform = "json"
    /\ pc = "exited"
    /\ FailedOnIprof

MultipleFilesError ==
    "Cannot generate call graphs from multiple input files. Please do it one at a time."

\* C10 as claimed: with graph set and more than one solidity file, input
\* resolution never succeeds and no loader is ever called, whatever other
\* input flags are set.
C10_MultipleFilesAlwaysFail ==
    args.graph /\ Len(args.solidity_file) > 1 =>
        /\ pc # "execute_command"
        /\ \A i \in DOMAIN trace : trace[i].op \notin LoadOps

\* C10: with graph set, more than one solidity file and none of code,
\* codefile, address set, get_code ends the run through exit_with_error with
\* the multiple-input-files error and calls no loader.
C10_MultipleFilesFailWithoutOtherInput ==
    [][ /\ pc = "get_code"
        /\ args.graph
        /\ Len(args.solidity_file) > 1
        /\ args.code = <<>>
        /\ ~args.codefile
        /\ ~args.address
        => /\ pc' = "exited"
           /\ FailedWith(MultipleFilesError)'
           /\ Cardinality(At("exit_with_error"))' = 1
           /\ \A i \in DOMAIN trace' : trace'[i].op \notin LoadOps ]_vars

\* C10 witness: get_code has ended a graph run over two solidity files with
\* the multiple-input-files error.
C10_Witness ==
    /\ args.graph
    /\ Len(args.solidity_file) = 2
    /\ pc = "exited"
    /\ FailedWith(MultipleFilesError)

\* the messages of the configuration errors of validate_args
ConfigurationErrors ==
    { "Invalid -v value, you can find valid values in usage",
      "The --query-signature function requires the python package ethereum-input-decoder",
      "--enable-iprof must be used with -v LOG_LEVEL where LOG_LEVEL >= 4",
      "--enable-iprof must be used with one of -g, --graph, -x, --fire-lasers, -j and --statespace-json" }

\* the exit_with_error at position i of the trace is followed by an output of
\* the envelope shape of its format
EnvelopeEmitted(i) ==
    LET format_ == trace[i].arg[1]
        message == Tail(trace[i].arg)
    IN  \E j \in (i + 1)..Len(trace) :
            IF format_ = "json"
            THEN /\ trace[j].op = "print"
                 /\ trace[j].doc.kind = "object"
                 /\ trace[j].doc.success = FALSE
                 /\ trace[j].doc.error = message
                 /\ trace[j].doc.issues = <<>>
            ELSE IF format_ = "jsonv2"
            THEN /\ trace[j].op = "print"
                 /\ trace[j].doc.kind = "list"
                 /\ Len(trace[j].doc.items) = 1
                 /\ trace[j].doc.items[1].meta.logs # <<>>
            ELSE /\ trace[j].op = "stderr"
                 /\ trace[j].arg = message
                 /\ message # <<>>

\* C11: whatever the output format and the verbosity, a configuration error
\* of validate_args is emitted in the envelope shape of the format: json an
\* object with success false, the message and no issues, jsonv2 a list of one
\* element with non-empty meta.logs, text and markdown the non-empty message.
C11_ConfigurationErrorEmitted ==
    \A i \in At("exit_with_error") :
        /\ trace[i].arg[1] = args.outform
        /\ trace[i].arg[2] \in ConfigurationErrors => EnvelopeEmitted(i)

\* a failure of the collaborator called at position i - 1 is at position i
RaisedAt(i) == i > 1 /\ trace[i].op = "raise"

\* the failure at position i is answered by exit_with_error with `message`
ReportedAs(i, message) ==
    /\ i < Len(trace)
    /\ trace[i + 1].op = "exit_with_error"
    /\ trace[i + 1].arg = <<args.outform>> \o message

\* the failure at position i is answered by a plain print of `text` and the
\* exit of the process, without exit_with_error
PrintedAs(i, text) ==
    /\ Len(trace) = i + 2
    /\ trace[i + 1] = Ev("print", <<text>>)
    /\ trace[i + 2] = Ev("sys.exit", <<>>)
    /\ ~Called("exit_with_error")
    /\ pc = "exited"
    /\ exitcode = 0

BuildDirectoryMessage ==
    "Build directory not found. Make sure that you start the analysis from the project root, and that 'truffle compile' has executed successfully."

\* the truffle analysis at position i - 1 failed with FileNotFoundError
TruffleBuildMissing(i) ==
    /\ RaisedAt(i)
    /\ trace[i - 1].op = "analyze_truffle_project"
    /\ trace[i].arg = <<"FileNotFoundError">>

AddressNotFound(i) ==
    /\ RaisedAt(i)
    /\ trace[i - 1].op = "contract_hash_to_address"
    /\ trace[i].arg = <<"AddressNotFoundError">>

\* C13 as claimed: every failure raised after validation is answered by
\* exit_with_error, but AddressNotFoundError in the address lookup.
C13_OnlyAddressNotFoundIsLocal ==
    \A i \in DOMAIN trace :
        RaisedAt(i) /\ ~AddressNotFound(i) =>
            i < Len(trace) /\ trace[i + 1].op = "exit_with_error"

\* C13: every failure raised after validation is answered by exit_with_error
\* - CriticalError with its text, ModuleNotFoundError of the analysis and the
\* failures of writing the graph or statespace file with their own message,
\* any other with the trace - but AddressNotFoundError in the address lookup
\* and FileNotFoundError in the truffle analysis, which are answered by a
\* plain printed message.
C13_LocalHandlingIsLookupAndTruffle ==
    \A i \in DOMAIN trace :
        RaisedAt(i) =>
            IF AddressNotFound(i) THEN PrintedAs(i, "Address not found.")
            ELSE IF TruffleBuildMissing(i)
            THEN PrintedAs(i, BuildDirectoryMessage)
            ELSE IF trace[i].arg = <<"CriticalError">>
            THEN ReportedAs(i, <<"str(ce)">>)
            ELSE IF trace[i].arg = <<"ModuleNotFoundError">>
            THEN ReportedAs(i, <<"Error loading analyis modules: ", "format(e)">>)
            ELSE IF trace[i - 1].op = "open.write"
            THEN ReportedAs(i, <<"Error saving graph: ", "str(e)">>)
            ELSE IF trace[i - 1].op = "json.dump"
            THEN ReportedAs(i, <<"Error saving json: ", "str(e)">>)
            ELSE ReportedAs(i, <<"traceback.format_exc()">>)

\* C13 witness: a loader failed with an exception other than CriticalError
\* and the run ended through exit_with_error with the trace.
C13_Witness ==
    \E i \in DOMAIN trace :
        /\ RaisedAt(i)
        /\ trace[i - 1].op = "load_from_bytecode"
        /\ trace[i].arg = <<"Exception">>
        /\ ReportedAs(i, <<"traceback.format_exc()">>)

\* C14: when the lookup of a run in AddressLookup mode raises
\* AddressNotFoundError, the run prints 'Address not found.' and nothing else,
\* exits with status 0 and never calls exit_with_error.
C14_AddressNotFoundIsFriendly ==
    \A i \in DOMAIN trace :
        AddressNotFound(i) =>
            /\ args.contract_hash_to_address /\ ~args.search /\ ~args.hash
            /\ PrintedAs(i, "Address not found.")
            /\ At("print") = {i + 1}
            /\ At("stderr") = {}

\* C14 witness: the lookup in a database given with --leveldb-dir has raised
\* AddressNotFoundError and the run has exited.
C14_Witness ==
    /\ args.leveldb_dir
    /\ pc = "exited"
    /\ \E i \in DOMAIN trace : AddressNotFound(i)
    /\ Called("set_api_leveldb")

\* C15: a run whose mode is StorageRead and whose address flag is not set
\* never calls get_state_variable_from_storage and ends through
\* exit_with_error.
C15_StorageNeedsAddress ==
    ResolvedMode = "StorageRead" /\ ~args.address =>
        /\ ~Called("get_state_variable_from_storage")
        /\ pc = "exited" => Called("exit_with_error")

\* C15 witness: a storage run with literal bytecode and no address has
\* reached execute_command and ended on the missing address.
C15_Witness ==
    /\ args.storage
    /\ args.code # <<>>
    /\ Called("load_from_bytecode")
    /\ FailedWith("To read storage, provide the address of a deployed contract with the -a option.")

\* a print of one of the two sections of the disassembly
SectionsPrinted ==
    {i \in At("print") : trace[i].arg[1] \in {"Runtime Disassembly: \n", "Disassembly: \n"}}

\* C16: a Disassemble run prints the runtime section when the first contract
\* has runtime code and the creation section when it has creation code, and
\* once ended it has printed at least one section or called exit_with_error.
C16_DisassembleNeverSilent ==
    ResolvedMode = "Disassemble" /\ pc = "exited" =>
        \/ SectionsPrinted # {}
        \/ Called("exit_with_error")

\* validate_args has returned: the run was not one of --epic or --version,
\* which end before it, and broke none of its rules
PassedValidation ==
    /\ pc # "parse_args"
    /\ ~args.epic
    /\ ~args.version
    /\ ~ValidationFails

\* C17: no run executes the operations of two modes; a run that passed
\* validation executes those of its resolved mode only, and when it ended
\* without exit_with_error it has executed them (or, in the Disassemble
\* branch, was given a contract with nothing to print); usage is printed by
\* validate_args alone, never by the fallback at the end of execute_command.
C17_OneShotMode ==
    /\ Cardinality(ModesExecuted) <= 1
    /\ \A i \in At("print_help") : i = 1 /\ NoModeFlag
    /\ PassedValidation =>
          /\ ModesExecuted \subseteq {ResolvedMode}
          /\ pc = "exited" /\ ~Called("exit_with_error") =>
                \/ ModesExecuted = {ResolvedMode}
                \/ /\ ResolvedMode = "Disassemble"
                   /\ Called("MythrilAnalyzer")
                   /\ contracts = <<[code |-> FALSE, creation_code |-> FALSE]>>

\* C17 witness: a statespace export, the last branch of execute_command, has
\* run to its end.
C17_Witness ==
    /\ pc = "exited"
    /\ args.statespace_json
    /\ ~Called("exit_with_error")
    /\ Called("dump_statespace")
    /\ trace[Len(trace)].op = "json.dump"

ModuleLoadingMessage == "Error loading analyis modules: "

\* C18: a ModuleNotFoundError of fire_lasers ends the run through
\* exit_with_error, in the chosen output format, with the module-loading
\* message; a CriticalError of fire_lasers is reported with its text and any
\* other exception with the trace; and the module-loading message appears
\* only in runs that execute the Analyze branch.
C18_MissingModuleDistinguished ==
    /\ \A i \in DOMAIN trace :
          RaisedAt(i) /\ trace[i - 1].op = "fire_lasers" =>
              /\ pc = "exited"
              /\ CASE trace[i].arg = <<"ModuleNotFoundError">> ->
                        ReportedAs(i, <<ModuleLoadingMessage, "format(e)">>)
                   [] trace[i].arg = <<"CriticalError">> ->
                        ReportedAs(i, <<"str(ce)">>)
                   [] OTHER -> ReportedAs(i, <<"traceback.format_exc()">>)
    /\ FailedWith(ModuleLoadingMessage) =>
          /\ ResolvedMode = "Analyze"
          /\ Called("fire_lasers")

\* C18 witness: fire_lasers has raised ModuleNotFoundError in a run with
\* output format json and the run has ended with the module-loading message.
C18_Witness ==
    /\ args.outform = "json"
    /\ FailedWith(ModuleLoadingMessage)
    /\ \E i \in DOMAIN trace :
          /\ RaisedAt(i)
          /\ trace[i - 1].op = "fire_lasers"
          /\ trace[i].arg = <<"ModuleNotFoundError">>

\* the operation `op` has returned at some position before i
EstablishedBefore(op, i) ==
    \E j \in 1..(i - 1) : trace[j].op = op /\ trace[j + 1].op # "raise"

\* C19: load_from_address is called only after set_api_rpc, and search_db and
\* contract_hash_to_address only after set_api_leveldb.
C19_BackendBeforeUse ==
    \A i \in DOMAIN trace :
        /\ trace[i].op = "load_from_address" =>
              EstablishedBefore("set_api_rpc", i)
        /\ trace[i].op \in {"search_db", "contract_hash_to_address"} =>
              EstablishedBefore("set_api_leveldb", i)

\* args.i would be read: dynld unset, no_onchain_storage_access unset, rpc
\* empty
ReadsUndeclaredFlag ==
    ~args.dynld /\ ~args.no_onchain_storage_access /\ ~args.rpc

\* C20: the condition of set_config raises AttributeError exactly when it is
\* evaluated with dynld unset, no_onchain_storage_access unset and rpc empty;
\* the run then ends through exit_with_error with the trace and without any
\* set_api_* call.
C20_UndeclaredFlag ==
    /\ \A i \in DOMAIN trace :
          RaisedAt(i) /\ trace[i].arg = <<"AttributeError">> =>
              /\ ReadsUndeclaredFlag
              /\ trace[i - 1].op = "MythrilConfig"
              /\ ReportedAs(i, <<"traceback.format_exc()">>)
              /\ pc = "exited"
    /\ ReadsUndeclaredFlag =>
          /\ \A i \in DOMAIN trace : trace[i].op \notin BackendOps
          /\ \A i \in At("MythrilConfig") : RaisedAt(i + 1)
          /\ pc \notin {"leveldb_search", "truffle", "get_code", "execute_command"}

\* C20 witness: set_config has read args.i in a run with an empty --rpc and
\* the address flag set, and the run has ended with the trace.
C20_Witness ==
    /\ ReadsUndeclaredFlag
    /\ args.address
    /\ pc = "exited"
    /\ \E i \in DOMAIN trace :
          /\ RaisedAt(i)
          /\ trace[i].arg = <<"AttributeError">>
          /\ ReportedAs(i, <<"traceback.format_exc()">>)

====
